---- MODULE Spec2Model ----
(***************************************************************************)
(* Model of fragrance_sampling.py: a Dash application with three           *)
(* callbacks.  load_data reads the CSV file into a pandas frame and writes *)
(* its JSON (orient="split", ISO dates) to the dcc.Store "df";             *)
(* calculate_kpis and plot each read the store back with pd.read_json and  *)
(* derive the eight KPIs and the tables behind the six figures.            *)
(*                                                                         *)
(* Text is modelled as sequences of naturals:                              *)
(*   - a string (house, fragrance, an ISO date) is its ASCII codes;        *)
(*   - a date field "DD.MM.YY" is <<DD, MM, YY>>, a blank field is <<>>;   *)
(*   - a numeric field is the parts around its decimal comma: "10" is      *)
(*     <<10>>, "2,5" is <<2, 5>>, a blank field is <<>>; anything else     *)
(*     (here: three parts, "1,5,0") is text pandas cannot read as a number.*)
(* Numbers are exact rationals [k |-> "num", n, d] in lowest terms, with   *)
(* NaN and inf beside them.  The input sets below hold integers and halves *)
(* and volumes that are 0 or a power of two, on which float64 arithmetic   *)
(* and the 10-digit JSON encoding of the store are exact; IEEE-754         *)
(* rounding is outside the model.                                          *)
(***************************************************************************)
EXTENDS Integers, Sequences, FiniteSets, TLC

VARIABLES
    file,      \* the source CSV as it is on disk
    store,     \* dcc.Store(id="df").data
    kpis,      \* html.Div(id="kpis").children
    figs,      \* the figure property of the six dcc.Graph components
    pending,   \* callbacks the renderer has queued
    loaded,    \* history: the file as the last completed load_data read it
    prev,      \* history: what the previous page session ended with
    argsort    \* the indexers the build's quicksort has returned so far

vars == <<file, store, kpis, figs, pending, loaded, prev, argsort>>

\* Rows a file of the model holds at most.
MaxRows == 3

\* Rows a file with defective rows holds at most.
MaxLoadRows == 2

-----------------------------------------------------------------------------
(* Numbers *)

RECURSIVE GCD(_, _)
GCD(a, b) == IF b = 0 THEN a ELSE GCD(b, a % b)

\* The float n/d (d > 0, n >= 0).
Num(n, d) == LET g == GCD(n, d) IN [k |-> "num", n |-> n \div g, d |-> d \div g]

NaN == [k |-> "nan"]
Inf == [k |-> "inf"]
Null == [k |-> "null"]

\* float.__add__ and float.__truediv__ as numpy evaluates them on a column
\* (errors ignored: x/0 is inf, 0/0 is nan).
Add(a, b) ==
    IF a.k = "nan" \/ b.k = "nan" THEN NaN
    ELSE IF a.k = "inf" \/ b.k = "inf" THEN Inf
    ELSE Num(a.n * b.d + b.n * a.d, a.d * b.d)

Div(a, b) ==
    IF a.k = "nan" \/ b.k = "nan" THEN NaN
    ELSE IF a.k = "inf" THEN (IF b.k = "inf" THEN NaN ELSE Inf)
    ELSE IF b.k = "inf" THEN Num(0, 1)
    ELSE IF b.n = 0 THEN (IF a.n = 0 THEN NaN ELSE Inf)
    ELSE Num(a.n * b.d, a.d * b.n)

\* a < b on floats; every comparison with NaN is false.
Less(a, b) ==
    IF a.k = "nan" \/ b.k = "nan" THEN FALSE
    ELSE IF a.k = "inf" THEN FALSE
    ELSE IF b.k = "inf" THEN TRUE
    ELSE a.n * b.d < b.n * a.d

-----------------------------------------------------------------------------
(* Text *)

\* s < t on Python strings (code point order).
RECURSIVE StrLess(_, _)
StrLess(s, t) ==
    IF t = <<>> THEN FALSE
    ELSE IF s = <<>> THEN TRUE
    ELSE IF Head(s) # Head(t) THEN Head(s) < Head(t)
    ELSE StrLess(Tail(s), Tail(t))

\* chr codes used below.
Digit(n) == 48 + n
Dash == 45
Colon == 58
Dot == 46
LetterT == 84

-----------------------------------------------------------------------------
(* The file *)

DateCols == <<"order_date", "arrival_date", "shipping_date">>
NumCols == {"sample_ml", "sample_cost", "bottle_ml", "bottle_cost", "amount", "rating"}
Columns == <<"house", "fragrance", "order_date", "arrival_date", "shipping_date",
             "sample_ml", "sample_cost", "bottle_ml", "bottle_cost", "amount", "rating">>
AllCols == {Columns[i] : i \in 1..Len(Columns)}

Range(s) == {s[i] : i \in 1..Len(s)}

\* Whether the C parser of read_csv (decimal=",") reads the field as a float.
IsFloatText(t) == Len(t) <= 1 \/ (Len(t) = 2 /\ t[2] \in 0..9)

\* The float the field reads as; a blank field reads as NaN.
ParseFloat(t) ==
    IF Len(t) = 0 THEN NaN
    ELSE IF Len(t) = 1 THEN Num(t[1], 1)
    ELSE Num(10 * t[1] + t[2], 10)

Str(t) == [k |-> "str", s |-> t]

\* pd.read_csv(path, sep=";", encoding="UTF-8", decimal=","): a column is
\* float when every field of it reads as one, and is left as text otherwise;
\* a blank field is NaN in either case.
ColumnIsFloat(f, c) == \A i \in 1..Len(f.rows) : IsFloatText(f.rows[i][c])

ReadCell(f, c, t) ==
    IF t = <<>> THEN NaN
    ELSE IF c \in NumCols /\ ColumnIsFloat(f, c) THEN ParseFloat(t)
    ELSE Str(t)

read_csv(f) ==
    [cols |-> f.cols,
     rows |-> [i \in 1..Len(f.rows) |->
                  [c \in f.cols |-> ReadCell(f, c, f.rows[i][c])]]]

-----------------------------------------------------------------------------
(* load_data *)

\* strptime's %y: 69..99 are 1969..1999, 0..68 are 2000..2068.
Year(yy) == IF yy >= 69 THEN 1900 + yy ELSE 2000 + yy

DaysInMonth(y, m) ==
    IF m = 2 THEN (IF y % 4 = 0 /\ (y % 100 # 0 \/ y % 400 = 0) THEN 29 ELSE 28)
    ELSE IF m \in {4, 6, 9, 11} THEN 30 ELSE 31

\* Whether a field matches format="%d.%m.%y".
MatchesFormat(t) ==
    /\ Len(t) = 3
    /\ t[3] \in 0..99
    /\ t[2] \in 1..12
    /\ t[1] \in 1..DaysInMonth(Year(t[3]), t[2])

NaT == [k |-> "nat"]

\* pd.to_datetime(cell, format="%d.%m.%y") on a cell that parses.
to_datetime(v) ==
    IF v.k = "nan" THEN NaT
    ELSE [k |-> "date", y |-> Year(v.s[3]), m |-> v.s[2], d |-> v.s[1]]

DateParses(v) == v.k = "nan" \/ (v.k = "str" /\ MatchesFormat(v.s))

\* A column of dtype object (it holds text): dividing by or into it raises.
IsObject(df, c) == \E i \in 1..Len(df.rows) : df.rows[i][c].k = "str"

\* The exception load_data raises on the file, "" when it raises none.
LoadError(f) ==
    IF ~f.exists THEN "FileNotFoundError"
    ELSE LET df == read_csv(f) IN
         IF \E j \in 1..Len(DateCols) :
               /\ \A h \in 1..(j - 1) :
                     /\ DateCols[h] \in df.cols
                     /\ \A i \in 1..Len(df.rows) : DateParses(df.rows[i][DateCols[h]])
               /\ DateCols[j] \notin df.cols
         THEN "KeyError"
         ELSE IF \E j \in 1..Len(DateCols), i \in 1..Len(df.rows) :
                    DateCols[j] \in df.cols /\ ~DateParses(df.rows[i][DateCols[j]])
         THEN "ValueError"
         ELSE IF {"sample_cost", "sample_ml"} \ df.cols # {} THEN "KeyError"
         ELSE IF IsObject(df, "sample_cost") \/ IsObject(df, "sample_ml") THEN "TypeError"
         ELSE IF {"bottle_cost", "bottle_ml"} \ df.cols # {} THEN "KeyError"
         ELSE IF IsObject(df, "bottle_cost") \/ IsObject(df, "bottle_ml") THEN "TypeError"
         ELSE ""

\* The frame load_data has built when it reaches its return statement.
LoadFrame(f) ==
    LET df == read_csv(f)
        Row(r) ==
            [c \in df.cols \cup {"sample_cost_ml", "bottle_cost_ml"} |->
                IF c \in Range(DateCols) THEN to_datetime(r[c])
                ELSE IF c = "sample_cost_ml" THEN Div(r["sample_cost"], r["sample_ml"])
                ELSE IF c = "bottle_cost_ml" THEN Div(r["bottle_cost"], r["bottle_ml"])
                ELSE r[c]]
    IN [cols |-> df.cols \cup {"sample_cost_ml", "bottle_cost_ml"},
        rows |-> [i \in 1..Len(df.rows) |-> Row(df.rows[i])]]

TwoDigits(n) == <<Digit(n \div 10), Digit(n % 10)>>

\* Timestamp.isoformat as to_json(date_format="iso") writes it (date_unit "ms").
IsoFormat(v) ==
    <<Digit(v.y \div 1000), Digit((v.y \div 100) % 10), Digit((v.y \div 10) % 10),
      Digit(v.y % 10), Dash>> \o TwoDigits(v.m) \o <<Dash>> \o TwoDigits(v.d)
    \o <<LetterT>> \o TwoDigits(0) \o <<Colon>> \o TwoDigits(0) \o <<Colon>>
    \o TwoDigits(0) \o <<Dot, Digit(0), Digit(0), Digit(0)>>

\* Faulty variant: an encoder that writes null for NaN and NaT only.
JsonValueKeepsInf(v) ==
    IF v.k \in {"nan", "nat"} THEN Null
    ELSE IF v.k = "date" THEN Str(IsoFormat(v))
    ELSE v

\* One value as the JSON encoder writes it: NaN, inf and NaT become null.
JsonValue(v) ==
    IF v.k \in {"nan", "inf", "nat"} THEN Null
    ELSE IF v.k = "date" THEN Str(IsoFormat(v))
    ELSE v

\* df.to_json(date_format="iso", orient="split")
to_json(df) ==
    [columns |-> df.cols,
     index |-> [i \in 1..Len(df.rows) |-> i - 1],
     data |-> [i \in 1..Len(df.rows) |->
                  [c \in df.cols |-> JsonValue(df.rows[i][c])]]]

load_data(f) == to_json(LoadFrame(f))

-----------------------------------------------------------------------------
(* pd.read_json(data, orient="split") *)

\* null reads back as NaN; no column of the table has a name read_json takes
\* for a date (ending _at or _time, starting timestamp, or being modified,
\* date or datetime), so the ISO dates stay strings.
read_json(js) ==
    [cols |-> js.columns,
     rows |-> [i \in 1..Len(js.data) |->
                  [c \in js.columns |->
                      IF js.data[i][c].k = "null" THEN NaN ELSE js.data[i][c]]]]


-----------------------------------------------------------------------------
(* Reductions of pandas: NaN is skipped *)

RECURSIVE SumTo(_, _)
SumTo(vals, n) ==
    IF n = 0 THEN Num(0, 1)
    ELSE IF vals[n].k = "nan" THEN SumTo(vals, n - 1)
    ELSE Add(SumTo(vals, n - 1), vals[n])

\* Series.count()
Count(vals) == Cardinality({i \in 1..Len(vals) : vals[i].k # "nan"})

\* Faulty variant: .mean() where .sum() is meant.
SumAsMean(vals) ==
    IF Count(vals) = 0 THEN Num(0, 1)
    ELSE Div(SumTo(vals, Len(vals)), Num(Count(vals), 1))

\* Series.sum()
Sum(vals) == SumTo(vals, Len(vals))

\* Faulty variant: a mean that is 0 where there is nothing to average.
MeanZeroOfNone(vals) ==
    IF Count(vals) = 0 THEN Num(0, 1) ELSE Div(Sum(vals), Num(Count(vals), 1))

\* Series.mean(): NaN of an empty or all-NaN column
Mean(vals) == IF Count(vals) = 0 THEN NaN ELSE Div(Sum(vals), Num(Count(vals), 1))

\* df[c]
Column(df, c) == [i \in 1..Len(df.rows) |-> df.rows[i][c]]

-----------------------------------------------------------------------------
(* calculate_kpis *)

Labels == <<"Unique Fragrances", "Unique Houses", "Total ML (Samples)",
            "Total ML (Bottles)", "Total Cost (Sampling)", "Total Cost (Bottles)",
            "Average Cost / ML (Sampling)", "Average Cost / ML (Bottles)">>

\* The exception calculate_kpis raises on the store's data, "" when none.
KpisError(js) == IF {"house", "fragrance"} \ js.columns # {} THEN "KeyError" ELSE ""

\* Faulty variant: duplicates dropped by the fragrance name alone.
UniqueNames(df) ==
    Num(Cardinality({df.rows[i]["fragrance"] : i \in 1..Len(df.rows)}), 1)

\* df[["house", "fragrance"]].drop_duplicates().shape[0]
UniqueFragrances(df) ==
    Num(Cardinality({<<df.rows[i]["house"], df.rows[i]["fragrance"]>> :
                        i \in 1..Len(df.rows)}), 1)

\* df["house"].drop_duplicates().shape[0]
UniqueHouses(df) ==
    Num(Cardinality({df.rows[i]["house"] : i \in 1..Len(df.rows)}), 1)

\* The dict kpis of calculate_kpis.
kpis_dict(js) ==
    LET df == read_json(js) IN
    [l \in Range(Labels) |->
        IF l = "Unique Fragrances" THEN UniqueFragrances(df)
        ELSE IF l = "Unique Houses" THEN UniqueHouses(df)
        ELSE IF l = "Total ML (Samples)" THEN Sum(Column(df, "sample_ml"))
        ELSE IF l = "Total ML (Bottles)" THEN Sum(Column(df, "bottle_ml"))
        ELSE IF l = "Total Cost (Sampling)" THEN Sum(Column(df, "sample_cost"))
        ELSE IF l = "Total Cost (Bottles)" THEN Sum(Column(df, "bottle_cost"))
        ELSE IF l = "Average Cost / ML (Sampling)" THEN Mean(Column(df, "sample_cost_ml"))
        ELSE Mean(Column(df, "bottle_cost_ml"))]

RECURSIVE Digits(_)
Digits(n) == IF n < 10 THEN <<Digit(n)>> ELSE Digits(n \div 10) \o <<Digit(n % 10)>>

\* f"{v:.2f}": the value rounded half-even to two decimals, "nan" for NaN.
Format2f(v) ==
    IF v.k = "nan" THEN <<110, 97, 110>>
    ELSE LET q == (100 * v.n) \div v.d
             r == (100 * v.n) % v.d
             c == IF 2 * r > v.d \/ (2 * r = v.d /\ q % 2 = 1) THEN q + 1 ELSE q
         IN Digits(c \div 100) \o <<Dot>> \o TwoDigits(c % 100)

\* What calculate_kpis returns: one Div per KPI, "label: value".
calculate_kpis(js) ==
    LET d == kpis_dict(js) IN
    [i \in 1..Len(Labels) |-> [label |-> Labels[i], text |-> Format2f(d[Labels[i]])]]

-----------------------------------------------------------------------------
(* plot *)

KeyLess(a, b) == IF a.k = "str" THEN StrLess(a.s, b.s) ELSE Less(a, b)

\* Faulty variant: the group keys in the order the rows bring them (sort=False).
GroupKeysAsMet(df, c) ==
    LET S == {df.rows[i][c] : i \in 1..Len(df.rows)} \ {NaN}
        First(g) == CHOOSE i \in 1..Len(df.rows) :
                        df.rows[i][c] = g /\ \A j \in 1..(i - 1) : df.rows[j][c] # g
        Rank(g) == 1 + Cardinality({h \in S : First(h) < First(g)})
    IN [r \in 1..Cardinality(S) |-> CHOOSE g \in S : Rank(g) = r]

\* The group keys of df.groupby([c]): the distinct values of the column, NaN
\* dropped, in ascending order (sort=True).
GroupKeys(df, c) ==
    LET S == {df.rows[i][c] : i \in 1..Len(df.rows)} \ {NaN}
        Rank(g) == 1 + Cardinality({h \in S : KeyLess(h, g)})
    IN [r \in 1..Cardinality(S) |-> CHOOSE g \in S : Rank(g) = r]

\* How many rows i <= n have key g.
RECURSIVE Upto(_, _, _, _)
Upto(df, c, g, n) ==
    IF n = 0 THEN 0
    ELSE Upto(df, c, g, n - 1) + (IF df.rows[n][c] = g THEN 1 ELSE 0)

\* The values of column y in the rows of group g, in row order.
GroupColumn(df, c, g, y) ==
    LET n == Upto(df, c, g, Len(df.rows)) IN
    [j \in 1..n |->
        df.rows[CHOOSE i \in 1..Len(df.rows) :
                    df.rows[i][c] = g /\ Upto(df, c, g, i) = j][y]]

\* df.groupby([c], as_index=False).mean(...)[[c, y]]
GroupMean(df, c, y) ==
    LET ks == GroupKeys(df, c) IN
    [r \in 1..Len(ks) |-> [key |-> ks[r], value |-> Mean(GroupColumn(df, c, ks[r], y))]]

\* Faulty variant: the mean of the group where its sum is meant.
GroupSumAsMean(df, c, y) == GroupMean(df, c, y)

\* df.groupby([c], as_index=False).sum(...)[[c, y]]
GroupSum(df, c, y) ==
    LET ks == GroupKeys(df, c) IN
    [r \in 1..Len(ks) |-> [key |-> ks[r], value |-> Sum(GroupColumn(df, c, ks[r], y))]]

\* df.groupby([c], as_index=False).size()
GroupSize(df, c) ==
    LET ks == GroupKeys(df, c) IN
    [r \in 1..Len(ks) |->
        [key |-> ks[r], value |-> Num(Upto(df, c, ks[r], Len(df.rows)), 1)]]

\* Whether ix is an indexer nargsort may return for vals with its defaults
\* (ascending, NaN last, kind="quicksort"): a permutation that puts the values
\* in non-decreasing order and the NaNs after them, in their own order.
\* quicksort is not a stable sort: the order of equal values is the build's.
IsArgsort(vals, ix) ==
    \A r, q \in 1..Len(vals) :
        r < q =>
            IF vals[ix[r]].k = "nan" THEN vals[ix[q]].k = "nan" /\ ix[r] < ix[q]
            ELSE ~Less(vals[ix[q]], vals[ix[r]])

Argsorts(vals) == {ix \in Permutations(1..Len(vals)) : IsArgsort(vals, ix)}

\* Faulty variant: a sort that arranges equal values anew on every call.
IndexersAnew(by, vals) == Argsorts(vals)

\* The indexers the build may return for a column: the one it returned for
\* the same values before, when it has.
Indexers(by, vals) ==
    IF \E e \in argsort : e.by = by /\ e.vals = vals
    THEN {e.ix : e \in {e \in argsort : e.by = by /\ e.vals = vals}}
    ELSE Argsorts(vals)

Values(t) == [r \in 1..Len(t) |-> t[r].value]

\* DataFrame.sort_values(by), the indexer being ix
sort_values(t, ix) == [r \in 1..Len(t) |-> t[ix[r]]]

\* The aggregates sum(...) and mean(...) keep the float columns only
\* (their first positional parameter, numeric_only, is given a non-empty
\* string): px.bar raises when the column it is to draw is not there.
PlotError(js) ==
    LET df == read_json(js) IN
    IF "amount" \notin js.columns \/ IsObject(df, "amount") THEN "ValueError"
    ELSE IF "rating" \notin js.columns \/ IsObject(df, "rating") THEN "ValueError"
    ELSE IF "house" \notin js.columns THEN "KeyError"
    ELSE ""

\* The data frames behind the six figures plot returns, the two sorts having
\* the indexers ixr and ixs.
plot(js, ixr, ixs) ==
    LET df == read_json(js) IN
    [order_cost |-> GroupSum(df, "order_date", "sample_cost"),
     order_amount |-> GroupSum(df, "order_date", "amount"),
     order_rating |-> GroupMean(df, "order_date", "rating"),
     house_rating |-> sort_values(GroupMean(df, "house", "rating"), ixr),
     fragrances_house |-> sort_values(GroupSize(df, "house"), ixs),
     hist |-> GroupSize(df, "rating")]


-----------------------------------------------------------------------------
(* The files of the model *)

A == <<65>>
B == <<66>>
AB == <<65, 66>>
X == <<88>>
Y == <<89>>

Row(h, f, od, sml, sc, bml, bc, am, ra) ==
    [house |-> h, fragrance |-> f, order_date |-> od, arrival_date |-> <<5, 1, 24>>,
     shipping_date |-> <<2, 1, 24>>, sample_ml |-> sml, sample_cost |-> sc,
     bottle_ml |-> bml, bottle_cost |-> bc, amount |-> am, rating |-> ra]

\* Well-formed rows (a table may hold a row twice, a repeated purchase): one
\* fragrance name at two houses,
\* shared and distinct order dates on both sides of the %y pivot, volumes of
\* zero with and without a cost, houses of equal and different mean rating.
GoodRows ==
    {Row(A, X, <<1, 1, 23>>, <<2>>, <<10>>, <<50>>, <<100>>, <<1>>, <<4>>),
     Row(A, Y, <<1, 1, 23>>, <<5>>, <<5>>, <<0>>, <<0>>, <<2>>, <<2>>),
     Row(B, X, <<31, 12, 99>>, <<0>>, <<10>>, <<0>>, <<100>>, <<2>>, <<4>>),
     Row(B, Y, <<15, 6, 68>>, <<0>>, <<0>>, <<100>>, <<50>>, <<1>>, <<3>>),
     Row(AB, X, <<2, 1, 23>>, <<4>>, <<2, 5>>, <<50>>, <<100>>, <<3>>, <<3>>)}

\* Rows with a defect each: a day February does not have, a blank date, and
\* text where sample_ml, rating and amount have a number.
NoSuchDay == [Row(A, X, <<31, 2, 23>>, <<2>>, <<10>>, <<50>>, <<100>>, <<1>>, <<4>>)
                EXCEPT !.house = B]
BlankDate == [Row(A, Y, <<1, 1, 23>>, <<2>>, <<10>>, <<50>>, <<100>>, <<1>>, <<4>>)
                EXCEPT !.shipping_date = <<>>]
TextVolume == Row(B, X, <<1, 1, 23>>, <<1, 5, 0>>, <<10>>, <<50>>, <<100>>, <<1>>, <<4>>)
TextRating == Row(B, Y, <<1, 1, 23>>, <<2>>, <<10>>, <<50>>, <<100>>, <<1>>, <<1, 5, 0>>)
TextAmount == Row(AB, X, <<1, 1, 23>>, <<2>>, <<10>>, <<50>>, <<100>>, <<1, 5, 0>>, <<4>>)
GoodRow == Row(A, X, <<1, 1, 23>>, <<2>>, <<10>>, <<50>>, <<100>>, <<1>>, <<4>>)
TiedRow == Row(B, X, <<31, 12, 99>>, <<0>>, <<10>>, <<0>>, <<100>>, <<2>>, <<4>>)

LoadRows == {GoodRow, NoSuchDay, BlankDate, TextVolume, TextRating, TextAmount}

SessionRows == {GoodRow, TiedRow, NoSuchDay, TextRating}

Tables(U) == UNION {[1..n -> U] : n \in 0..MaxRows}

Files(U) == {[exists |-> TRUE, cols |-> AllCols, rows |-> t] : t \in Tables(U)}

\* Files with defects: no file, a file without one of its columns, and files
\* of up to MaxLoadRows rows, some defective.
LoadFiles ==
    {[exists |-> FALSE, cols |-> {}, rows |-> <<>>]}
    \cup {[exists |-> TRUE, cols |-> AllCols \ {c}, rows |-> <<GoodRow>>] : c \in AllCols}
    \cup {[exists |-> TRUE, cols |-> AllCols, rows |-> t] :
             t \in UNION {[1..n -> LoadRows] : n \in 0..MaxLoadRows}}

-----------------------------------------------------------------------------
(* The application *)

Unset == [set |-> FALSE]

Init(F) ==
    /\ file \in F
    /\ store = Unset
    /\ kpis = Unset
    /\ figs = Unset
    /\ pending = {}
    /\ loaded = Unset
    /\ prev = Unset
    /\ argsort = {}

\* The browser loads the page: the layout is built anew (an empty store, no
\* children, no figures) and the renderer queues the callback whose input,
\* load_interval.n_intervals, the layout sets.  The responses of callbacks
\* still in flight would be dropped with the old page; the model loads the
\* page when none is.
PageLoad ==
    /\ pending = {}
    /\ prev' = [set |-> TRUE, loaded |-> loaded, kpis |-> kpis, figs |-> figs]
    /\ store' = Unset
    /\ kpis' = Unset
    /\ figs' = Unset
    /\ loaded' = Unset
    /\ pending' = {"load_data"}
    /\ UNCHANGED <<file, argsort>>

\* load_data runs; when it raises, no output is set and the callbacks that
\* take its output as input are not called.
LoadData ==
    /\ "load_data" \in pending
    /\ IF LoadError(file) = ""
       THEN /\ store' = [set |-> TRUE, data |-> load_data(file)]
            /\ loaded' = [set |-> TRUE, file |-> file]
            /\ pending' = {"calculate_kpis", "plot"}
       ELSE /\ pending' = pending \ {"load_data"}
            /\ UNCHANGED <<store, loaded>>
    /\ UNCHANGED <<file, kpis, figs, prev, argsort>>

\* Faulty variant: calculate_kpis reads the file again instead of the store.
CalculateKpisFromFile ==
    /\ "calculate_kpis" \in pending
    /\ pending' = pending \ {"calculate_kpis"}
    /\ IF LoadError(file) = "" /\ KpisError(load_data(file)) = ""
       THEN kpis' = [set |-> TRUE, dict |-> kpis_dict(load_data(file)),
                     children |-> calculate_kpis(load_data(file))]
       ELSE UNCHANGED kpis
    /\ UNCHANGED <<file, store, figs, loaded, prev, argsort>>

CalculateKpis ==
    /\ "calculate_kpis" \in pending
    /\ pending' = pending \ {"calculate_kpis"}
    /\ IF store.set /\ KpisError(store.data) = ""
       THEN kpis' = [set |-> TRUE, dict |-> kpis_dict(store.data),
                     children |-> calculate_kpis(store.data)]
       ELSE UNCHANGED kpis
    /\ UNCHANGED <<file, store, figs, loaded, prev, argsort>>

Plot ==
    /\ "plot" \in pending
    /\ pending' = pending \ {"plot"}
    /\ IF store.set /\ PlotError(store.data) = ""
       THEN LET df == read_json(store.data)
                r == Values(GroupMean(df, "house", "rating"))
                z == Values(GroupSize(df, "house"))
            IN \E ixr \in Indexers("rating", r), ixs \in Indexers("size", z) :
                  /\ figs' = [set |-> TRUE, data |-> plot(store.data, ixr, ixs)]
                  /\ argsort' = argsort \cup {[by |-> "rating", vals |-> r, ix |-> ixr],
                                               [by |-> "size", vals |-> z, ix |-> ixs]}
       ELSE UNCHANGED <<figs, argsort>>
    /\ UNCHANGED <<file, store, kpis, loaded, prev>>

Next == PageLoad \/ LoadData \/ CalculateKpis \/ Plot

Spec == Init(Files(GoodRows)) /\ [][Next]_vars

SpecLoad == Init(LoadFiles) /\ [][Next]_vars

\* A purchase is recorded: a row is appended to the file.
AppendRow ==
    /\ Len(file.rows) < MaxRows
    /\ \E r \in SessionRows : file' = [file EXCEPT !.rows = Append(@, r)]
    /\ UNCHANGED <<store, kpis, figs, pending, loaded, prev, argsort>>

NextSession == Next \/ AppendRow

SpecSession == Init(Files({})) /\ [][NextSession]_vars


-----------------------------------------------------------------------------
(* What the claims are stated over: the rows of the file the store holds *)

Src == loaded.file.rows

\* A numeric field in tenths.
Tenths(t) == IF Len(t) = 1 THEN 10 * t[1] ELSE 10 * t[1] + t[2]

\* The sum of f[i] over the indices in S, in tenths.
RECURSIVE TenthsOver(_, _, _)
TenthsOver(rows, c, S) ==
    IF S = {} THEN 0
    ELSE LET i == CHOOSE j \in S : TRUE
         IN Tenths(rows[i][c]) + TenthsOver(rows, c, S \ {i})

\* A date field as a number that orders dates chronologically.
Chrono(t) == 10000 * Year(t[3]) + 100 * t[2] + t[1]

IsoOf(t) == Str(IsoFormat([y |-> Year(t[3]), m |-> t[2], d |-> t[1]]))

Keys(t) == {t[r].key : r \in 1..Len(t)}

\* C3: the orderCost table has exactly one row for every order date of the
\* file, and its value is the sum of sample_cost over the rows of that date.
C3_OrderCostIsSum ==
    (figs.set /\ loaded.set) =>
        LET t == figs.data.order_cost IN
        \A i \in 1..Len(Src) :
            LET same == {j \in 1..Len(Src) : Src[j].order_date = Src[i].order_date}
            IN /\ Cardinality({r \in 1..Len(t) : t[r].key = IsoOf(Src[i].order_date)}) = 1
               /\ \A r \in 1..Len(t) :
                     t[r].key = IsoOf(Src[i].order_date) =>
                         t[r].value = Num(TenthsOver(Src, "sample_cost", same), 10)

\* Two rows of one order date whose costs differ, with the figures drawn.
C3_Witness ==
    /\ figs.set /\ loaded.set
    /\ \E i, j \in 1..Len(Src) :
          /\ i # j
          /\ Src[i].order_date = Src[j].order_date
          /\ Src[i].sample_cost # Src[j].sample_cost

\* C9: orderCost, orderAmount and orderRating each hold one row per distinct
\* order date of the file, in ascending chronological order.
C9_OrderTablesChronological ==
    (figs.set /\ loaded.set) =>
        \A t \in {figs.data.order_cost, figs.data.order_amount, figs.data.order_rating} :
            /\ Keys(t) = {IsoOf(Src[i].order_date) : i \in 1..Len(Src)}
            /\ Len(t) = Cardinality({Src[i].order_date : i \in 1..Len(Src)})
            /\ \A r, q \in 1..Len(t) :
                  r < q =>
                      \E i, j \in 1..Len(Src) :
                          /\ t[r].key = IsoOf(Src[i].order_date)
                          /\ t[q].key = IsoOf(Src[j].order_date)
                          /\ Chrono(Src[i].order_date) < Chrono(Src[j].order_date)

\* The file lists a later order before an earlier one, and a 2068 order
\* before a 1999 one.
C9_Witness ==
    /\ figs.set /\ loaded.set
    /\ Len(Src) = 3
    /\ Src[1].order_date = <<15, 6, 68>>
    /\ Src[2].order_date = <<2, 1, 23>>
    /\ Src[3].order_date = <<31, 12, 99>>

\* C7: Unique Fragrances is the number of distinct (house, fragrance) pairs
\* of the file and Unique Houses the number of distinct houses.
C7_UniqueCounts ==
    (kpis.set /\ loaded.set) =>
        /\ kpis.dict["Unique Fragrances"] =
               Num(Cardinality({<<Src[i].house, Src[i].fragrance>> : i \in 1..Len(Src)}), 1)
        /\ kpis.dict["Unique Houses"] =
               Num(Cardinality({Src[i].house : i \in 1..Len(Src)}), 1)

\* One pair bought twice and one fragrance name at two houses, KPIs shown.
C7_Witness ==
    /\ kpis.set /\ loaded.set
    /\ \E i, j \in 1..Len(Src) :
          i # j /\ Src[i].house = Src[j].house /\ Src[i].fragrance = Src[j].fragrance
    /\ \E i, j \in 1..Len(Src) :
          Src[i].house # Src[j].house /\ Src[i].fragrance = Src[j].fragrance

Totals == {<<"Total ML (Samples)", "sample_ml">>, <<"Total ML (Bottles)", "bottle_ml">>,
           <<"Total Cost (Sampling)", "sample_cost">>, <<"Total Cost (Bottles)", "bottle_cost">>}

\* The file with its rows in the order p.
Permuted(f, p) == [f EXCEPT !.rows = [i \in 1..Len(f.rows) |-> f.rows[p[i]]]]

\* C6: each of the four totals is the sum of its column over all rows of the
\* file, and is the same for every order of the rows.
C6_TotalsAreSums ==
    (kpis.set /\ loaded.set) =>
        /\ \A lc \in Totals :
            kpis.dict[lc[1]] = Num(TenthsOver(Src, lc[2], 1..Len(Src)), 10)
        /\ \A p \in Permutations(1..Len(Src)) :
              LET d == kpis_dict(load_data(Permuted(loaded.file, p)))
              IN \A lc \in Totals : d[lc[1]] = kpis.dict[lc[1]]

\* Three rows that differ in all four columns, KPIs shown.
C6_Witness ==
    /\ kpis.set /\ loaded.set
    /\ Len(Src) = MaxRows
    /\ \A lc \in Totals : \E i, j \in 1..Len(Src) : Src[i][lc[2]] # Src[j][lc[2]]

\* The mean of cost / ml over the rows whose ml is not 0, NaN when none.
RECURSIVE QuotientsOver(_, _, _, _)
QuotientsOver(rows, cost, ml, S) ==
    IF S = {} THEN Num(0, 1)
    ELSE LET i == CHOOSE j \in S : TRUE
         IN Add(Num(Tenths(rows[i][cost]), Tenths(rows[i][ml])),
                QuotientsOver(rows, cost, ml, S \ {i}))

MeanOfDefined(rows, cost, ml) ==
    LET S == {i \in 1..Len(rows) : Tenths(rows[i][ml]) # 0} IN
    IF S = {} THEN NaN
    ELSE Div(QuotientsOver(rows, cost, ml, S), Num(Cardinality(S), 1))

PerMl == {[label |-> "Average Cost / ML (Sampling)", derived |-> "sample_cost_ml",
           cost |-> "sample_cost", ml |-> "sample_ml"],
          [label |-> "Average Cost / ML (Bottles)", derived |-> "bottle_cost_ml",
           cost |-> "bottle_cost", ml |-> "bottle_ml"]}

\* C2: the derived cost per ml of a row is cost / ml when ml is not 0 and is
\* missing when ml is 0, whatever the cost; neither load_data nor
\* calculate_kpis fails, and each average is the mean over the rows whose ml
\* is not 0.
C2_CostPerMl ==
    /\ (prev.set /\ "load_data" \notin pending) => store.set
    /\ (store.set /\ "calculate_kpis" \notin pending) => kpis.set
    /\ (store.set /\ loaded.set) =>
          \A x \in PerMl, i \in 1..Len(Src) :
              store.data.data[i][x.derived] =
                  IF Tenths(Src[i][x.ml]) # 0
                  THEN Num(Tenths(Src[i][x.cost]), Tenths(Src[i][x.ml]))
                  ELSE Null
    /\ (kpis.set /\ loaded.set) =>
          \A x \in PerMl : kpis.dict[x.label] = MeanOfDefined(Src, x.cost, x.ml)

\* A file with a volume of 0 at a cost, a volume of 0 at no cost and a volume
\* that is not 0, KPIs shown.
C2_Witness ==
    /\ kpis.set /\ loaded.set
    /\ \E i, j, h \in 1..Len(Src) :
          /\ Src[i].sample_ml = <<0>> /\ Src[i].sample_cost # <<0>>
          /\ Src[j].sample_ml = <<0>> /\ Src[j].sample_cost = <<0>>
          /\ Src[h].sample_ml # <<0>>
          /\ Src[i].bottle_ml = <<0>> /\ Src[i].bottle_cost # <<0>>
          /\ Src[h].bottle_ml = <<0>> /\ Src[h].bottle_cost = <<0>>

\* C5: on a file of a header and no rows both callbacks complete: the two
\* counts and the four totals are 0, the two averages are NaN, and the six
\* tables are empty.
C5_EmptyTable ==
    /\ (file.rows = <<>> /\ prev.set /\ "load_data" \notin pending) => store.set
    /\ (store.set /\ loaded.set /\ Src = <<>>) =>
          /\ "calculate_kpis" \notin pending => kpis.set
          /\ "plot" \notin pending => figs.set
          /\ kpis.set =>
                \A i \in 1..Len(Labels) :
                    /\ kpis.children[i].label = Labels[i]
                    /\ IF i <= 6
                       THEN /\ kpis.dict[Labels[i]] = Num(0, 1)
                            /\ kpis.children[i].text = <<Digit(0), Dot, Digit(0), Digit(0)>>
                       ELSE /\ kpis.dict[Labels[i]] = NaN
                            /\ kpis.children[i].text = <<110, 97, 110>>
          /\ figs.set =>
                \A n \in DOMAIN figs.data : figs.data[n] = <<>>

\* Both callbacks have run on the empty table.
C5_Witness == kpis.set /\ figs.set /\ loaded.set /\ Src = <<>> /\ pending = {}

\* C4: houseRating and fragrancesPerHouse are non-decreasing in their value,
\* and houses of equal value are in the order of the group keys.
C4_SortedAndStable ==
    figs.set =>
        \A t \in {figs.data.house_rating, figs.data.fragrances_house} :
            \A r, q \in 1..Len(t) :
                r < q =>
                    /\ ~Less(t[q].value, t[r].value)
                    /\ t[r].value = t[q].value => StrLess(t[r].key.s, t[q].key.s)

\* A file load_data is to fail on: it is not there, lacks a required column,
\* or has a row with a date that is not DD.MM.YY or a number that is none
\* (a blank field is not counted).
Defective(f) ==
    \/ ~f.exists
    \/ AllCols \ f.cols # {}
    \/ \E i \in 1..Len(f.rows) :
          \/ \E j \in 1..Len(DateCols) :
                f.rows[i][DateCols[j]] # <<>> /\ ~MatchesFormat(f.rows[i][DateCols[j]])
          \/ \E c \in NumCols : ~IsFloatText(f.rows[i][c])

\* C1: load_data fails as a whole on a defective file and leaves the store
\* unwritten; the store only ever holds a table with every row of the file.
C1_LoadAllOrNothing ==
    /\ (prev.set /\ "load_data" \notin pending /\ Defective(file)) => ~store.set
    /\ store.set =>
          /\ loaded.set
          /\ ~Defective(loaded.file)
          /\ Len(store.data.data) = Len(Src)

C10_Shown ==
    /\ store.set => (loaded.set /\ store.data = load_data(loaded.file))
    /\ kpis.set => (store.set /\ kpis.children = calculate_kpis(store.data))
    /\ figs.set =>
          /\ store.set
          /\ \E r, z \in argsort :
                /\ r.by = "rating" /\ z.by = "size"
                /\ r.vals = Values(GroupMean(read_json(store.data), "house", "rating"))
                /\ z.vals = Values(GroupSize(read_json(store.data), "house"))
                /\ figs.data = plot(store.data, r.ix, z.ix)

\* Only load_data writes the store, in one step from empty to the table; a
\* page load empties it; calculate_kpis and plot leave the store alone and
\* never queue load_data.
C10_Step ==
    /\ store' # store =>
          \/ "load_data" \in pending /\ ~store.set /\ store'.set
          \/ pending = {} /\ ~store'.set /\ ~kpis'.set /\ ~figs'.set
    /\ (kpis' # kpis /\ kpis'.set) \/ (figs' # figs /\ figs'.set) =>
          /\ store' = store
          /\ "load_data" \notin pending'
          /\ loaded' = loaded

\* C10: data flows load_data -> store -> calculate_kpis and plot: what is
\* shown is computed from the table of the most recent completed load, a
\* load replaces the store as a whole, and neither calculate_kpis nor plot
\* writes the store or triggers load_data.
C10_DataFlow == [](C10_Shown) /\ [][C10_Step]_vars

\* KPIs and figures are shown for a table the file has since grown past.
C10_Witness ==
    /\ kpis.set /\ figs.set /\ loaded.set
    /\ prev.set /\ prev.kpis.set
    /\ Len(file.rows) > Len(Src)
    /\ Len(Src) > 0

====
